---- MODULE Spec2Model ----
(***************************************************************************)
(* Audio alignment and drift detection of video-audio-combiner            *)
(* (backend/src/video_audio_combiner/services/alignment.py).              *)
(*                                                                         *)
(* Python floats are modelled as exact rationals [n, d] in lowest terms.  *)
(* An onset envelope is the sequence of frame strengths librosa returns;  *)
(* a float array whose entries share a denominator is [num, den].         *)
(***************************************************************************)
EXTENDS Integers, Sequences, FiniteSets, TLC

\* ----------------------------------------------------------------- bounds
\* longest onset envelope (frames) given to the aligner
MaxEnvLen == 6
\* number of positive frames an input envelope may hold, and their strengths
OnsetCounts == {0, 1, 2}
OnsetStrengths == {1, 2}

\* ------------------------------------------------------ program constants
sample_rate == 22050
hop_length == 512
ConfidenceDivisor == 10
MsPerSecond == 1000

\* ------------------------------------------------------------- rationals
Abs(x) == IF x < 0 THEN -x ELSE x

RECURSIVE GCD(_, _)
GCD(a, b) == IF b = 0 THEN a ELSE GCD(b, a % b)

Rat(n, d) ==
    LET g == GCD(Abs(n), Abs(d))
        s == IF d < 0 THEN -1 ELSE 1
    IN  [n |-> s * (n \div g), d |-> s * (d \div g)]

RatInt(i) == [n |-> i, d |-> 1]
RatAdd(x, y) == Rat(x.n * y.d + y.n * x.d, x.d * y.d)
RatSub(x, y) == Rat(x.n * y.d - y.n * x.d, x.d * y.d)
RatNeg(x) == [n |-> -x.n, d |-> x.d]
RatAbs(x) == [n |-> Abs(x.n), d |-> x.d]
RatDiv(x, y) == Rat(x.n * y.d, x.d * y.n)
RatDivInt(x, k) == Rat(x.n, x.d * k)
RatLE(x, y) == x.n * y.d <= y.n * x.d
RatLT(x, y) == x.n * y.d < y.n * x.d
RatMin(x, y) == IF RatLE(x, y) THEN x ELSE y

\* ------------------------------------------------------- numpy reductions
RECURSIVE SeqSum(_)
SeqSum(s) == IF s = << >> THEN 0 ELSE Head(s) + SeqSum(Tail(s))

\* np.max of a non-empty array
SeqMax(s) == CHOOSE m \in {s[i] : i \in 1..Len(s)} : \A i \in 1..Len(s) : s[i] <= m

ArgMaxLast(s) ==
    (CHOOSE i \in 1..Len(s) : s[i] = SeqMax(s) /\ \A j \in (i + 1)..Len(s) : s[j] < s[i]) - 1

\* np.argmax: the index (0-based) of the FIRST occurrence of the maximum
ArgMax(s) ==
    (CHOOSE i \in 1..Len(s) : s[i] = SeqMax(s) /\ \A j \in 1..(i - 1) : s[j] < s[i]) - 1

\* ------------------------------------------- cross-correlation alignment
\* onset = onset / np.max(onset) when the maximum is positive
Normalize(onset) ==
    IF SeqMax(onset) > 0
    THEN [num |-> onset, den |-> SeqMax(onset)]
    ELSE [num |-> onset, den |-> 1]

\* one output sample of signal.correlate(x, y, mode="full") at the given lag:
\* sum over l of x[l + lag] * y[l] (0-based l), terms outside x dropped
CorrAt(x, y, lag) ==
    SeqSum([l \in 1..Len(y) |->
        IF l + lag >= 1 /\ l + lag <= Len(x) THEN x[l + lag] * y[l] ELSE 0])

\* signal.correlate(a, b, mode="full"): output index j (0-based) is lag j - (len(b) - 1)
Correlate(a, b) ==
    [num |-> [j \in 1..(Len(a.num) + Len(b.num) - 1) |-> CorrAt(a.num, b.num, j - Len(b.num))],
     den |-> a.den * b.den]

LagSamplesAlt(correlation, onset_main, onset_secondary) ==
    ArgMax(correlation.num) - Len(onset_main) + 1

LagSamplesNoPlusOne(correlation, onset_main, onset_secondary) ==
    ArgMax(correlation.num) - Len(onset_secondary)

\* lag_samples = np.argmax(correlation) - len(onset_secondary) + 1
LagSamples(correlation, onset_main, onset_secondary) ==
    ArgMax(correlation.num) - Len(onset_secondary) + 1

\* offset_ms = lag_samples * (hop_length / sample_rate) * 1000
LagToOffsetMs(lag_samples) == Rat(lag_samples * hop_length * MsPerSecond, sample_rate)

ConfidenceUnclamped(correlation) ==
    LET max_corr == Rat(SeqMax(correlation.num), correlation.den)
        mean_corr == Rat(SeqSum([j \in 1..Len(correlation.num) |-> Abs(correlation.num[j])]),
                         Len(correlation.num) * correlation.den)
    IN  IF mean_corr.n > 0
        THEN RatDivInt(RatDiv(max_corr, mean_corr), ConfidenceDivisor)
        ELSE RatInt(0)

\* confidence = min(1.0, max_corr / mean_corr / 10.0) if mean_corr > 0 else 0.0
Confidence(correlation) ==
    LET max_corr == Rat(SeqMax(correlation.num), correlation.den)
        mean_corr == Rat(SeqSum([j \in 1..Len(correlation.num) |-> Abs(correlation.num[j])]),
                         Len(correlation.num) * correlation.den)
    IN  IF mean_corr.n > 0
        THEN RatMin(RatInt(1), RatDivInt(RatDiv(max_corr, mean_corr), ConfidenceDivisor))
        ELSE RatInt(0)

AlignResponse(offset_ms, confidence) == [offset_ms |-> offset_ms, confidence |-> confidence]

\* The envelope part shared by detect_alignment and detect_alignment_segment:
\* normalise, correlate, take the peak lag, convert, score.
CorrelationOf(onset_main, onset_secondary) ==
    Correlate(Normalize(onset_main), Normalize(onset_secondary))

AlignEnvelopes(onset_main, onset_secondary) ==
    LET correlation == CorrelationOf(onset_main, onset_secondary)
    IN  AlignResponse(
            LagToOffsetMs(LagSamples(correlation, onset_main, onset_secondary)),
            Confidence(correlation))

\* librosa.onset.onset_strength yields 1 + len(y) // hop_length frames, so a
\* buffer whose envelope has f frames holds (f - 1) * hop_length + r samples
SamplesOf(onset, r) == (Len(onset) - 1) * hop_length + r

AlignSegmentBuffersOneHop(len_main, len_secondary, onset_main, onset_secondary) ==
    IF len_main < hop_length \/ len_secondary < hop_length
    THEN AlignResponse(RatInt(0), RatInt(0))
    ELSE AlignEnvelopes(onset_main, onset_secondary)

\* detect_alignment_segment after the two loads: the short-buffer guard, then
\* the envelope alignment
AlignSegmentBuffers(len_main, len_secondary, onset_main, onset_secondary) ==
    IF len_main < hop_length * 2 \/ len_secondary < hop_length * 2
    THEN AlignResponse(RatInt(0), RatInt(0))
    ELSE AlignEnvelopes(onset_main, onset_secondary)

\* -------------------------------------------------------- envelope inputs
\* all envelopes of the given length whose count of positive frames is in OnsetCounts
EnvelopesOfLen(n) ==
    {e \in [1..n -> {0} \cup OnsetStrengths] :
        Cardinality({i \in 1..n : e[i] > 0}) \in OnsetCounts}

Envelopes == UNION {EnvelopesOfLen(n) : n \in 1..MaxEnvLen}

Zeros(k) == [i \in 1..k |-> 0]

\* ------------------------------------------------ np.median and np.mean
RECURSIVE InsertSorted(_, _)
InsertSorted(x, s) ==
    IF s = << >> THEN <<x>>
    ELSE IF RatLE(x, Head(s)) THEN <<x>> \o s
    ELSE <<Head(s)>> \o InsertSorted(x, Tail(s))

RECURSIVE SortRat(_)
SortRat(s) == IF s = << >> THEN << >> ELSE InsertSorted(Head(s), SortRat(Tail(s)))

\* np.median: the middle value, or the mean of the two middle values
Median(values) ==
    LET sorted == SortRat(values)
        n == Len(values)
    IN  IF n % 2 = 1
        THEN sorted[(n + 1) \div 2]
        ELSE RatDivInt(RatAdd(sorted[n \div 2], sorted[n \div 2 + 1]), 2)

RECURSIVE RatSum(_)
RatSum(s) == IF s = << >> THEN RatInt(0) ELSE RatAdd(Head(s), RatSum(Tail(s)))

\* np.mean
Mean(values) == RatDivInt(RatSum(values), Len(values))

\* ------------------------------------------------------- drift detection
\* A measurement is the tuple (position_ms, offset_ms, confidence).
Offsets(ms) == [k \in 1..Len(ms) |-> ms[k][2]]
Confidences(ms) == [k \in 1..Len(ms) |-> ms[k][3]]

\* offset_change = abs(curr_offset - prev_offset)
OffsetChange(prev, curr) == RatAbs(RatSub(curr[2], prev[2]))

IsDriftStrict(prev, curr, threshold) == RatLT(RatInt(threshold), OffsetChange(prev, curr))

IsDriftBelow(prev, curr, threshold) == RatLE(OffsetChange(prev, curr), RatInt(threshold))

\* if offset_change >= drift_threshold_ms
IsDrift(prev, curr, threshold) == RatLE(RatInt(threshold), OffsetChange(prev, curr))

DriftPointCopied(prev, curr, window_ms) ==
    [timestamp_ms |-> Rat(prev[1] + curr[1] + window_ms, 2),
     offset_before_ms |-> prev[2],
     offset_after_ms |-> prev[2],
     confidence |-> RatMin(prev[3], curr[3])]

DriftPointMidStarts(prev, curr, window_ms) ==
    [timestamp_ms |-> Rat(prev[1] + curr[1], 2),
     offset_before_ms |-> prev[2],
     offset_after_ms |-> curr[2],
     confidence |-> RatMin(prev[3], curr[3])]

DriftPointNotHalved(prev, curr, window_ms) ==
    [timestamp_ms |-> RatInt(prev[1] + curr[1] + window_ms),
     offset_before_ms |-> prev[2],
     offset_after_ms |-> curr[2],
     confidence |-> RatMin(prev[3], curr[3])]

\* the DriftPoint appended for the pair (measurements[i - 1], measurements[i])
DriftPointOf(prev, curr, window_ms) ==
    [timestamp_ms |-> Rat(prev[1] + curr[1] + window_ms, 2),
     offset_before_ms |-> prev[2],
     offset_after_ms |-> curr[2],
     confidence |-> RatMin(prev[3], curr[3])]

\* for i in range(1, len(measurements)): ... drift_points.append(...)
RECURSIVE DriftPointsFrom(_, _, _, _)
DriftPointsFrom(i, ms, window_ms, threshold) ==
    IF i > Len(ms) THEN << >>
    ELSE (IF IsDrift(ms[i - 1], ms[i], threshold)
          THEN <<DriftPointOf(ms[i - 1], ms[i], window_ms)>>
          ELSE << >>)
         \o DriftPointsFrom(i + 1, ms, window_ms, threshold)

DetectDrifts(ms, window_ms, threshold) == DriftPointsFrom(2, ms, window_ms, threshold)

\* ----------------------------------------------------- segment synthesis
AudioSegment(start_time_ms, end_time_ms, offset_ms, confidence) ==
    [start_time_ms |-> start_time_ms, end_time_ms |-> end_time_ms,
     offset_ms |-> offset_ms, confidence |-> confidence]

SegmentStartStale(dps, k) == RatInt(0)

\* segment_start when the k-th segment is built: 0.0, then the previous
\* drift's timestamp (segment_start = drift.timestamp_ms)
SegmentStart(dps, k) == IF k = 1 THEN RatInt(0) ELSE dps[k - 1].timestamp_ms

MeasurementsWithinClosed(ms, lo, hi) ==
    SelectSeq(ms, LAMBDA m : RatLE(lo, RatInt(m[1])) /\ RatLE(RatInt(m[1]), hi))

\* [m for m in measurements if segment_start <= m[0] < drift.timestamp_ms]
MeasurementsWithin(ms, lo, hi) ==
    SelectSeq(ms, LAMBDA m : RatLE(lo, RatInt(m[1])) /\ RatLT(RatInt(m[1]), hi))

\* [m for m in measurements if m[0] >= drift_points[-1].timestamp_ms]
MeasurementsFrom(ms, lo) == SelectSeq(ms, LAMBDA m : RatLE(lo, RatInt(m[1])))

\* the segment appended in the loop body for drift_points[k]
DriftSegment(ms, dps, k) ==
    LET drift == dps[k]
        segment_start == SegmentStart(dps, k)
        segment_measurements == MeasurementsWithin(ms, segment_start, drift.timestamp_ms)
    IN  IF segment_measurements # << >>
        THEN AudioSegment(segment_start, drift.timestamp_ms,
                          Median(Offsets(segment_measurements)),
                          Mean(Confidences(segment_measurements)))
        ELSE AudioSegment(segment_start, drift.timestamp_ms,
                          drift.offset_before_ms, drift.confidence)

\* the final segment after the last drift point
FinalSegment(ms, dps, duration_ms) ==
    LET last == dps[Len(dps)]
        segment_start == SegmentStart(dps, Len(dps) + 1)
        final_measurements == MeasurementsFrom(ms, last.timestamp_ms)
    IN  IF final_measurements # << >>
        THEN AudioSegment(segment_start, RatInt(duration_ms),
                          Median(Offsets(final_measurements)),
                          Mean(Confidences(final_measurements)))
        ELSE AudioSegment(segment_start, RatInt(duration_ms),
                          last.offset_after_ms, last.confidence)

BuildSegmentsFirstOffset(ms, dps, duration_ms) ==
    IF dps = << >>
    THEN <<AudioSegment(RatInt(0), RatInt(duration_ms), ms[1][2], ms[1][3])>>
    ELSE [k \in 1..Len(dps) |-> DriftSegment(ms, dps, k)]
         \o <<FinalSegment(ms, dps, duration_ms)>>

\* "Build segments from drift points"
BuildSegments(ms, dps, duration_ms) ==
    IF dps = << >>
    THEN <<AudioSegment(RatInt(0), RatInt(duration_ms),
                        Median(Offsets(ms)), Mean(Confidences(ms)))>>
    ELSE [k \in 1..Len(dps) |-> DriftSegment(ms, dps, k)]
         \o <<FinalSegment(ms, dps, duration_ms)>>

\* ------------------------------------------------------ drift scan inputs
\* bound on the number of windows one scan may take (a scan whose step is
\* zero or negative never leaves its loop)
MaxWindows == 3
\* granularity of the scan's durations, windows and steps, in ms
TimeUnit == 25
MaxDurationUnits == 4

Durations == {k * TimeUnit : k \in 0..MaxDurationUnits}
SegmentDurations == {TimeUnit, 2 * TimeUnit, 3 * TimeUnit}
Steps == {-TimeUnit, 0, 10, TimeUnit, 2 * TimeUnit}
Thresholds == {0, 24, 500}

\* frames of a window in which an onset may fall
WindowOnsetFrames == {1, 2}

\* samples librosa.load returns for a slice of window_ms that lies inside the file
FullSamples(window_ms) == (window_ms * sample_rate) \div MsPerSecond

\* a slice of the secondary is whole, or cut down to nothing by the end of the file
SecondarySamples(window_ms) == {0, FullSamples(window_ms)}

\* onset envelopes of a loaded slice: 1 + len(y) // hop_length frames
WindowEnvelopes(samples) ==
    LET f == 1 + samples \div hop_length
    IN  {[i \in 1..f |-> IF i \in S THEN 1 ELSE 0] : S \in SUBSET (WindowOnsetFrames \cap 1..f)}

\* -------------------------------------------------- compensation planner
\* The planner and the renderer behind ffmpeg_service.compensate_audio, taken
\* from sections 3 (EditPlan) and 4.F of the specification.
MaxSegments == 3
PlanUnit == 1000
MaxPlanUnits == 4

CopyRange(src_start_ms, src_end_ms) ==
    [kind |-> "CopyRange", src_start_ms |-> src_start_ms, src_end_ms |-> src_end_ms]

Silence(duration_ms) == [kind |-> "Silence", duration_ms |-> duration_ms]

OpDuration(op) ==
    IF op.kind = "CopyRange" THEN op.src_end_ms - op.src_start_ms ELSE op.duration_ms

\* executing the plan yields an output of total duration sum(op.duration_ms)
RECURSIVE PlanDuration(_)
PlanDuration(plan) ==
    IF plan = << >> THEN 0 ELSE OpDuration(Head(plan)) + PlanDuration(Tail(plan))

RECURSIVE InsertByStart(_, _)
InsertByStart(seg, sorted) ==
    IF sorted = << >> THEN <<seg>>
    ELSE IF seg.start_time_ms < Head(sorted).start_time_ms THEN <<seg>> \o sorted
    ELSE <<Head(sorted)>> \o InsertByStart(seg, Tail(sorted))

\* sort segments by start_time_ms
RECURSIVE SortByStart(_)
SortByStart(segs) ==
    IF segs = << >> THEN << >>
    ELSE InsertByStart(segs[Len(segs)], SortByStart(SubSeq(segs, 1, Len(segs) - 1)))

TrivialPlanWholeSecondary(main_ms, secondary_ms) == <<CopyRange(0, secondary_ms)>>

\* fewer than 2 segments: [CopyRange(0, main_duration_ms)]
TrivialPlan(main_ms, secondary_ms) == <<CopyRange(0, main_ms)>>

AdjustMsReversed(prev, curr) == curr.offset_ms - prev.offset_ms

\* adjust_ms = prev.offset_ms - curr.offset_ms
AdjustMs(prev, curr) == prev.offset_ms - curr.offset_ms

RegionEndUnadjusted(curr, applied_ms) == curr.start_time_ms

\* the region to copy ends at curr.start_time_ms - applied_adjustment_ms
RegionEnd(curr, applied_ms) == curr.start_time_ms - applied_ms

RangeFeasibleOrEmpty(src_start_ms, src_end_ms) == src_end_ms >= src_start_ms

\* a CopyRange of zero or negative duration makes the plan infeasible
RangeFeasible(src_start_ms, src_end_ms) == src_end_ms > src_start_ms

CursorAfterNoSkip(region_end_ms, adjust_ms) == region_end_ms

\* the cursor stays at the region end, or skips |adjust_ms| when trimming
CursorAfter(region_end_ms, adjust_ms) ==
    IF adjust_ms < 0 THEN region_end_ms - adjust_ms ELSE region_end_ms

\* ------------------------------------------------------- planner inputs
RECURSIVE AscendingSeq(_)
AscendingSeq(S) ==
    IF S = {} THEN << >>
    ELSE LET m == CHOOSE x \in S : \A y \in S : x <= y
         IN  <<m>> \o AscendingSeq(S \ {m})

Reversed(q) == [i \in 1..Len(q) |-> q[Len(q) + 1 - i]]

PlanOffsets == {-PlanUnit, 0, PlanUnit}

\* contiguous segments starting at the given times, the last ending at main_ms
SegmentsAt(starts, offs, main_ms) ==
    [i \in 1..Len(starts) |->
        [start_time_ms |-> starts[i],
         end_time_ms |-> IF i < Len(starts) THEN starts[i + 1] ELSE main_ms,
         offset_ms |-> offs[i]]]

PlanTimes == {k * PlanUnit : k \in 0..MaxPlanUnits}

GeneratedPlanInputs ==
    UNION {
      UNION {
        {[segments |-> order, main_duration_ms |-> main_ms, secondary_duration_ms |-> secondary_ms] :
            order \in {SegmentsAt(AscendingSeq(S), offs, main_ms),
                       Reversed(SegmentsAt(AscendingSeq(S), offs, main_ms))},
            secondary_ms \in PlanTimes \ {0}} :
        offs \in [1..Cardinality(S) -> PlanOffsets],
        main_ms \in {t \in PlanTimes \cup {(MaxPlanUnits + 1) * PlanUnit} :
                        t > 0 /\ \A b \in S : b < t}} :
      S \in {T \in SUBSET PlanTimes : Cardinality(T) <= MaxSegments}}

\* scenario S5 of the specification
ScenarioS5 ==
    [segments |-> <<[start_time_ms |-> 0, end_time_ms |-> 60000, offset_ms |-> 0],
                    [start_time_ms |-> 60000, end_time_ms |-> 120000, offset_ms |-> -3000]>>,
     main_duration_ms |-> 120000,
     secondary_duration_ms |-> 63000]

PlanInputs == GeneratedPlanInputs \cup {ScenarioS5}

\* ------------------------------------------------- requests to the process
\* routes.py serves every request of the process through the one module-level
\* ffmpeg_service, whose temp_dir is shared; each handler is an async def
\* without an await, so a handler runs from start to end before the next.
Requests == {1, 2}

Videos == {"a.mkv", "b.mkv"}

Operations == {"generate_preview", "extract_frame", "detect_alignment"}

\* output_path = self.temp_dir / "preview.mp4"
PreviewPath(video_path) == "preview.mp4"

\* output_path = self.temp_dir / f"frame_{path_hash}.jpg", the hash taken of
\* the video path and the time
FramePath(video_path) == IF video_path = "a.mkv" THEN "frame_a.jpg" ELSE "frame_b.jpg"

TempPaths == {PreviewPath(v) : v \in Videos} \cup {FramePath(v) : v \in Videos}

NoFile == [writer |-> 0, video |-> "none"]

\* ----------------------------------------------------------- merge_audio
\* A video file is told by the number of audio tracks it holds.
TrackCounts == {0, 1, 2}

VideoFile(tracks) == [tracks |-> tracks]

TempAfterFailureKept(modify, temp) == temp

\* if modify_original and actual_output.exists(): actual_output.unlink()
TempAfterFailure(modify, temp) ==
    IF modify /\ temp # "absent" THEN "absent" ELSE temp

VARIABLES aop, apc, y_main_len, y_secondary_len, onset_main, onset_secondary,
          correlation, align_result,
          pc, main_exists, secondary_exists, main_duration_ms,
          segment_duration_ms, step_ms, drift_threshold_ms,
          position_ms, measurements, window_load, drift_points, segments,
          plan_pc, plan_segments, plan_main_duration_ms, secondary_duration_ms,
          src_cursor_ms, applied_adjustment_ms, ops, boundary,
          total_silence_ms, total_trimmed_ms,
          req_op, req_video, req_state, response_path, temp_files,
          mpc, modify_original, video_exists, audio_exists, video_tracks,
          merge_temp, output_file, new_track_index, ffmpeg_result, merge_response

avars == <<aop, apc, y_main_len, y_secondary_len, onset_main, onset_secondary,
           correlation, align_result>>

dvars == <<pc, main_exists, secondary_exists, main_duration_ms,
           segment_duration_ms, step_ms, drift_threshold_ms,
           position_ms, measurements, window_load, drift_points, segments>>

pvars == <<plan_pc, plan_segments, plan_main_duration_ms, secondary_duration_ms,
           src_cursor_ms, applied_adjustment_ms, ops, boundary,
           total_silence_ms, total_trimmed_ms>>

rvars == <<req_op, req_video, req_state, response_path, temp_files>>

mvars == <<mpc, modify_original, video_exists, audio_exists, video_tracks,
           merge_temp, output_file, new_track_index, ffmpeg_result, merge_response>>

\* what the alignment calls leave alone
ovars == <<pvars, rvars, mvars>>

vars == <<avars, dvars, ovars>>

NoResult == [offset_ms |-> RatInt(0), confidence |-> RatInt(-1)]
NoCorrelation == [num |-> << >>, den |-> 1]

\* no alignment request in progress
AlignIdle ==
    /\ aop = "none"
    /\ apc = "idle"
    /\ y_main_len = 0
    /\ y_secondary_len = 0
    /\ onset_main = << >>
    /\ onset_secondary = << >>
    /\ correlation = NoCorrelation
    /\ align_result = NoResult

\* no drift scan in progress
DriftIdle ==
    /\ pc = "idle"
    /\ main_duration_ms = 0
    /\ segment_duration_ms = 0
    /\ step_ms = 0
    /\ drift_threshold_ms = 0
    /\ position_ms = 0
    /\ measurements = << >>
    /\ window_load = "none"
    /\ drift_points = << >>
    /\ segments = << >>

PathsExistMainOnly(main_there, secondary_there) == main_there

\* if not main_path.exists(): raise ...; if not secondary_path.exists(): raise ...
PathsExist(main_there, secondary_there) == main_there /\ secondary_there

NextPositionTwice(position, step) == position + 2 * step

\* position_ms += step_ms
NextPosition(position, step) == position + step

WindowFitsStrict(position, window_ms, duration_ms) == position + window_ms < duration_ms

\* while position_ms + segment_duration_ms <= main_duration_ms
WindowFits(position, window_ms, duration_ms) == position + window_ms <= duration_ms

\* what the route makes of the call's outcome: FileNotFoundError is caught and
\* answered 404, any other exception is left to the framework (500)
RouteStatus(outcome) ==
    IF outcome = "file_not_found" THEN 404
    ELSE IF outcome = "raised" THEN 500
    ELSE 200

\* no compensation request in progress
PlanIdle ==
    /\ plan_pc = "idle"
    /\ plan_segments = << >>
    /\ plan_main_duration_ms = 0
    /\ secondary_duration_ms = 0
    /\ src_cursor_ms = 0
    /\ applied_adjustment_ms = 0
    /\ ops = << >>
    /\ boundary = 0
    /\ total_silence_ms = 0
    /\ total_trimmed_ms = 0

\* the process before any request has arrived
RequestsIdle ==
    /\ req_op = [r \in Requests |-> "none"]
    /\ req_video = [r \in Requests |-> "none"]
    /\ req_state = [r \in Requests |-> "none"]
    /\ response_path = [r \in Requests |-> "none"]
    /\ temp_files = [p \in TempPaths |-> NoFile]

\* no merge in progress
MergeIdle ==
    /\ mpc = "idle"
    /\ modify_original = FALSE
    /\ video_exists = TRUE
    /\ audio_exists = TRUE
    /\ video_tracks = 0
    /\ merge_temp = "absent"
    /\ output_file = "absent"
    /\ new_track_index = 0
    /\ ffmpeg_result = "not_run"
    /\ merge_response = "none"

OthersIdle == PlanIdle /\ RequestsIdle /\ MergeIdle

\* ---------------------------------- detect_alignment[_segment] requests
InitAlign ==
    /\ aop \in {"detect_alignment", "detect_alignment_segment"}
    /\ apc = "start"
    /\ main_exists \in BOOLEAN
    /\ secondary_exists \in BOOLEAN
    /\ y_main_len = 0
    /\ y_secondary_len = 0
    /\ onset_main = << >>
    /\ onset_secondary = << >>
    /\ correlation = NoCorrelation
    /\ align_result = NoResult
    /\ DriftIdle
    /\ OthersIdle

\* the two path checks, then the two librosa.load calls; onset_main and
\* onset_secondary hold the envelopes onset_strength gives for the buffers
AlignLoad ==
    /\ apc = "start"
    /\ IF PathsExist(main_exists, secondary_exists)
       THEN /\ apc' = "loaded"
            /\ \E om \in Envelopes, os \in Envelopes,
                  r \in (IF aop = "detect_alignment" THEN {0} ELSE {0, hop_length - 1}) :
                  /\ onset_main' = om
                  /\ onset_secondary' = os
                  /\ y_main_len' = SamplesOf(om, r)
                  /\ y_secondary_len' = SamplesOf(os, r)
       ELSE /\ apc' = "file_not_found"
            /\ UNCHANGED <<y_main_len, y_secondary_len, onset_main, onset_secondary>>
    /\ UNCHANGED <<aop, correlation, align_result>>
    /\ UNCHANGED dvars
    /\ UNCHANGED ovars

\* detect_alignment_segment: "audio is too short" early return
ShortCircuit ==
    /\ apc = "loaded"
    /\ aop = "detect_alignment_segment"
    /\ (y_main_len < hop_length * 2 \/ y_secondary_len < hop_length * 2)
    /\ align_result' = AlignSegmentBuffers(y_main_len, y_secondary_len, onset_main, onset_secondary)
    /\ apc' = "done"
    /\ UNCHANGED <<aop, y_main_len, y_secondary_len, onset_main, onset_secondary, correlation>>
    /\ UNCHANGED dvars
    /\ UNCHANGED ovars

\* normalise, correlate, convert and score, up to the return
ComputeAlignment ==
    /\ apc = "loaded"
    /\ \/ aop = "detect_alignment"
       \/ /\ aop = "detect_alignment_segment"
          /\ ~(y_main_len < hop_length * 2 \/ y_secondary_len < hop_length * 2)
    /\ correlation' = CorrelationOf(onset_main, onset_secondary)
    /\ align_result' = AlignEnvelopes(onset_main, onset_secondary)
    /\ apc' = "done"
    /\ UNCHANGED <<aop, y_main_len, y_secondary_len, onset_main, onset_secondary>>
    /\ UNCHANGED dvars
    /\ UNCHANGED ovars

NextAlign == AlignLoad \/ ShortCircuit \/ ComputeAlignment

SpecAlign == InitAlign /\ [][NextAlign]_vars

\* ------------------------------------------- detect_drift_points request
Init ==
    /\ pc = "start"
    /\ main_exists \in BOOLEAN
    /\ secondary_exists \in BOOLEAN
    /\ main_duration_ms \in Durations
    /\ segment_duration_ms \in SegmentDurations
    /\ step_ms \in Steps
    /\ drift_threshold_ms \in Thresholds
    /\ position_ms = 0
    /\ measurements = << >>
    /\ window_load = "none"
    /\ drift_points = << >>
    /\ segments = << >>
    /\ AlignIdle
    /\ OthersIdle

\* the two path checks; then the duration probe and position_ms = 0.0
CheckPaths ==
    /\ pc = "start"
    /\ pc' = IF PathsExist(main_exists, secondary_exists) THEN "scan" ELSE "file_not_found"
    /\ UNCHANGED <<main_exists, secondary_exists, main_duration_ms, segment_duration_ms,
                   step_ms, drift_threshold_ms, position_ms, measurements, window_load,
                   drift_points, segments>>
    /\ UNCHANGED avars
    /\ UNCHANGED ovars

\* one iteration of the while loop whose detect_alignment_segment call returns
ScanWindow ==
    /\ pc = "scan"
    /\ WindowFits(position_ms, segment_duration_ms, main_duration_ms)
    /\ Len(measurements) < MaxWindows
    /\ \E len_secondary \in SecondarySamples(segment_duration_ms) :
          LET len_main == FullSamples(segment_duration_ms)
              short == len_main < hop_length * 2 \/ len_secondary < hop_length * 2
          IN  \E om \in WindowEnvelopes(len_main), os \in WindowEnvelopes(len_secondary) :
                 LET result == AlignSegmentBuffers(len_main, len_secondary, om, os)
                 IN  /\ measurements' = Append(measurements,
                            <<position_ms, result.offset_ms, result.confidence>>)
                     /\ window_load' = IF short THEN "short" ELSE "ok"
    /\ position_ms' = NextPosition(position_ms, step_ms)
    /\ UNCHANGED <<pc, main_exists, secondary_exists, main_duration_ms, segment_duration_ms,
                   step_ms, drift_threshold_ms, drift_points, segments>>
    /\ UNCHANGED avars
    /\ UNCHANGED ovars

\* one iteration of the while loop whose librosa.load raises: nothing in
\* detect_alignment_segment, detect_drift_points or the route catches it
ScanWindowRaises ==
    /\ pc = "scan"
    /\ WindowFits(position_ms, segment_duration_ms, main_duration_ms)
    /\ Len(measurements) < MaxWindows
    /\ window_load' = "decode_error"
    /\ pc' = "raised"
    /\ UNCHANGED <<main_exists, secondary_exists, main_duration_ms, segment_duration_ms,
                   step_ms, drift_threshold_ms, position_ms, measurements,
                   drift_points, segments>>
    /\ UNCHANGED avars
    /\ UNCHANGED ovars

\* the loop has ended: the empty result, or drift points and segments
FinishScan ==
    /\ pc = "scan"
    /\ ~WindowFits(position_ms, segment_duration_ms, main_duration_ms)
    /\ IF measurements = << >>
       THEN /\ drift_points' = << >>
            /\ segments' = << >>
       ELSE /\ drift_points' = DetectDrifts(measurements, segment_duration_ms, drift_threshold_ms)
            /\ segments' = BuildSegments(measurements,
                               DetectDrifts(measurements, segment_duration_ms, drift_threshold_ms),
                               main_duration_ms)
    /\ pc' = "done"
    /\ UNCHANGED <<main_exists, secondary_exists, main_duration_ms, segment_duration_ms,
                   step_ms, drift_threshold_ms, position_ms, measurements, window_load>>
    /\ UNCHANGED avars
    /\ UNCHANGED ovars

Next == CheckPaths \/ ScanWindow \/ ScanWindowRaises \/ FinishScan

Spec == Init /\ [][Next]_vars

\* ------------------------------------------------ compensation requests
InitPlan ==
    /\ plan_pc = "start"
    /\ \E input \in PlanInputs :
          /\ plan_segments = input.segments
          /\ plan_main_duration_ms = input.main_duration_ms
          /\ secondary_duration_ms = input.secondary_duration_ms
    /\ src_cursor_ms = 0
    /\ applied_adjustment_ms = 0
    /\ ops = << >>
    /\ boundary = 0
    /\ total_silence_ms = 0
    /\ total_trimmed_ms = 0
    /\ main_exists = TRUE
    /\ secondary_exists = TRUE
    /\ AlignIdle
    /\ DriftIdle
    /\ RequestsIdle
    /\ MergeIdle

\* fewer than 2 segments: the trivial plan
PlanTrivial ==
    /\ plan_pc = "start"
    /\ Len(plan_segments) < 2
    /\ ops' = TrivialPlan(plan_main_duration_ms, secondary_duration_ms)
    /\ plan_pc' = "done"
    /\ UNCHANGED <<plan_segments, plan_main_duration_ms, secondary_duration_ms,
                   src_cursor_ms, applied_adjustment_ms, boundary,
                   total_silence_ms, total_trimmed_ms>>
    /\ UNCHANGED <<avars, dvars, rvars, mvars>>

\* two or more segments: sort them, then walk the boundaries from the second segment
PlanSort ==
    /\ plan_pc = "start"
    /\ Len(plan_segments) >= 2
    /\ plan_segments' = SortByStart(plan_segments)
    /\ boundary' = 2
    /\ plan_pc' = "copy"
    /\ UNCHANGED <<plan_main_duration_ms, secondary_duration_ms, src_cursor_ms,
                   applied_adjustment_ms, ops, total_silence_ms, total_trimmed_ms>>
    /\ UNCHANGED <<avars, dvars, rvars, mvars>>

\* the CopyRange up to the boundary at plan_segments[boundary], or PlanInfeasible
PlanCopy ==
    /\ plan_pc = "copy"
    /\ LET region_end == RegionEnd(plan_segments[boundary], applied_adjustment_ms)
       IN  IF RangeFeasible(src_cursor_ms, region_end)
           THEN /\ ops' = Append(ops, CopyRange(src_cursor_ms, region_end))
                /\ src_cursor_ms' = region_end
                /\ plan_pc' = "adjust"
           ELSE /\ ops' = << >>
                /\ plan_pc' = "infeasible"
                /\ UNCHANGED src_cursor_ms
    /\ UNCHANGED <<plan_segments, plan_main_duration_ms, secondary_duration_ms,
                   applied_adjustment_ms, boundary, total_silence_ms, total_trimmed_ms>>
    /\ UNCHANGED <<avars, dvars, rvars, mvars>>

\* the silence or the trim at the boundary, then on to the next boundary
PlanAdjust ==
    /\ plan_pc = "adjust"
    /\ LET adjust_ms == AdjustMs(plan_segments[boundary - 1], plan_segments[boundary])
       IN  /\ ops' = IF adjust_ms > 0 THEN Append(ops, Silence(adjust_ms)) ELSE ops
           /\ src_cursor_ms' = CursorAfter(src_cursor_ms, adjust_ms)
           /\ applied_adjustment_ms' = applied_adjustment_ms + adjust_ms
           /\ total_silence_ms' = total_silence_ms + (IF adjust_ms > 0 THEN adjust_ms ELSE 0)
           /\ total_trimmed_ms' = total_trimmed_ms + (IF adjust_ms < 0 THEN -adjust_ms ELSE 0)
    /\ boundary' = boundary + 1
    /\ plan_pc' = IF boundary = Len(plan_segments) THEN "tail" ELSE "copy"
    /\ UNCHANGED <<plan_segments, plan_main_duration_ms, secondary_duration_ms>>
    /\ UNCHANGED <<avars, dvars, rvars, mvars>>

\* the final tail CopyRange(src_cursor_ms, secondary_duration_ms)
PlanTail ==
    /\ plan_pc = "tail"
    /\ IF RangeFeasible(src_cursor_ms, secondary_duration_ms)
       THEN /\ ops' = Append(ops, CopyRange(src_cursor_ms, secondary_duration_ms))
            /\ src_cursor_ms' = secondary_duration_ms
            /\ plan_pc' = "done"
       ELSE /\ ops' = << >>
            /\ plan_pc' = "infeasible"
            /\ UNCHANGED src_cursor_ms
    /\ UNCHANGED <<plan_segments, plan_main_duration_ms, secondary_duration_ms,
                   applied_adjustment_ms, boundary, total_silence_ms, total_trimmed_ms>>
    /\ UNCHANGED <<avars, dvars, rvars, mvars>>

NextPlan == PlanTrivial \/ PlanSort \/ PlanCopy \/ PlanAdjust \/ PlanTail

SpecPlan == InitPlan /\ [][NextPlan]_vars

\* ------------------------------------------- two requests to one process
InitRequests ==
    /\ req_op \in [Requests -> Operations]
    /\ req_video \in [Requests -> Videos]
    /\ req_state = [r \in Requests |-> "pending"]
    /\ response_path = [r \in Requests |-> "none"]
    /\ temp_files \in [TempPaths -> {NoFile} \cup {[writer |-> 0, video |-> v] : v \in Videos}]
    /\ main_exists = TRUE
    /\ secondary_exists = TRUE
    /\ AlignIdle
    /\ DriftIdle
    /\ PlanIdle
    /\ MergeIdle

\* POST /preview: ffmpeg writes the preview to the fixed path and the
\* response names that path
GeneratePreview ==
    \E r \in Requests :
        /\ req_state[r] = "pending"
        /\ req_op[r] = "generate_preview"
        /\ temp_files' = [temp_files EXCEPT ![PreviewPath(req_video[r])] =
                              [writer |-> r, video |-> req_video[r]]]
        /\ response_path' = [response_path EXCEPT ![r] = PreviewPath(req_video[r])]
        /\ req_state' = [req_state EXCEPT ![r] = "done"]
        /\ UNCHANGED <<req_op, req_video>>
        /\ UNCHANGED <<avars, dvars, pvars, mvars>>

\* POST /extract/frame: an existing frame file is returned as it is,
\* otherwise ffmpeg writes it; the response names the path
ExtractFrame ==
    \E r \in Requests :
        /\ req_state[r] = "pending"
        /\ req_op[r] = "extract_frame"
        /\ temp_files' = IF temp_files[FramePath(req_video[r])] # NoFile
                         THEN temp_files
                         ELSE [temp_files EXCEPT ![FramePath(req_video[r])] =
                                  [writer |-> r, video |-> req_video[r]]]
        /\ response_path' = [response_path EXCEPT ![r] = FramePath(req_video[r])]
        /\ req_state' = [req_state EXCEPT ![r] = "done"]
        /\ UNCHANGED <<req_op, req_video>>
        /\ UNCHANGED <<avars, dvars, pvars, mvars>>

\* POST /align/detect: an AlignmentService of its own, no file written
DetectAlignment ==
    \E r \in Requests :
        /\ req_state[r] = "pending"
        /\ req_op[r] = "detect_alignment"
        /\ req_state' = [req_state EXCEPT ![r] = "done"]
        /\ UNCHANGED <<req_op, req_video, response_path, temp_files>>
        /\ UNCHANGED <<avars, dvars, pvars, mvars>>

NextRequests == GeneratePreview \/ ExtractFrame \/ DetectAlignment

SpecRequests == InitRequests /\ [][NextRequests]_vars

\* ------------------------------------------------------ a merge_audio call
InitMerge ==
    /\ mpc = "start"
    /\ modify_original \in BOOLEAN
    /\ video_exists \in BOOLEAN
    /\ audio_exists \in BOOLEAN
    /\ video_tracks \in TrackCounts
    /\ merge_temp \in {"absent", "stale"}
    /\ output_file \in {"absent", "stale"}
    /\ new_track_index = 0
    /\ ffmpeg_result = "not_run"
    /\ merge_response = "none"
    /\ main_exists = TRUE
    /\ secondary_exists = TRUE
    /\ AlignIdle
    /\ DriftIdle
    /\ PlanIdle
    /\ RequestsIdle

\* if not video.exists(): raise ...; if not audio.exists(): raise ...
MergeCheckPaths ==
    /\ mpc = "start"
    /\ IF PathsExist(video_exists, audio_exists)
       THEN /\ mpc' = "probe"
            /\ UNCHANGED merge_response
       ELSE /\ mpc' = "done"
            /\ merge_response' = "FileNotFoundError"
    /\ UNCHANGED <<modify_original, video_exists, audio_exists, video_tracks,
                   merge_temp, output_file, new_track_index, ffmpeg_result>>
    /\ UNCHANGED <<avars, dvars, pvars, rvars>>

\* new_track_index = self._count_audio_tracks(video_path), or ffprobe fails
MergeProbe ==
    /\ mpc = "probe"
    /\ \/ /\ new_track_index' = video_tracks
          /\ mpc' = "ffmpeg"
          /\ UNCHANGED merge_response
       \/ /\ merge_response' = "ValueError"
          /\ mpc' = "done"
          /\ UNCHANGED new_track_index
    /\ UNCHANGED <<modify_original, video_exists, audio_exists, video_tracks,
                   merge_temp, output_file, ffmpeg_result>>
    /\ UNCHANGED <<avars, dvars, pvars, rvars>>

\* subprocess.run(cmd, check=True): ffmpeg writes actual_output (the temp
\* file when modifying the original) and exits with or without an error; a
\* failed run leaves a partial file or none
MergeRunFfmpeg ==
    /\ mpc = "ffmpeg"
    /\ \E written \in {"merged", "partial", "nothing"} :
          LET before == IF modify_original THEN merge_temp ELSE output_file
              after == IF written = "merged" THEN VideoFile(new_track_index + 1)
                       ELSE IF written = "partial" THEN "partial"
                       ELSE before
          IN  /\ merge_temp' = IF modify_original THEN after ELSE merge_temp
              /\ output_file' = IF modify_original THEN output_file ELSE after
              /\ ffmpeg_result' = IF written = "merged" THEN "ok" ELSE "failed"
    /\ mpc' = "after_ffmpeg"
    /\ UNCHANGED <<modify_original, video_exists, audio_exists, video_tracks,
                   new_track_index, merge_response>>
    /\ UNCHANGED <<avars, dvars, pvars, rvars>>

\* the try block after a successful run: shutil.move(actual_output,
\* final_output) when modifying the original, then the success response
MergeReplaceOriginal ==
    /\ mpc = "after_ffmpeg"
    /\ ffmpeg_result = "ok"
    /\ IF modify_original
       THEN /\ video_tracks' = merge_temp.tracks
            /\ merge_temp' = "absent"
       ELSE UNCHANGED <<video_tracks, merge_temp>>
    /\ merge_response' = "success"
    /\ mpc' = "done"
    /\ UNCHANGED <<modify_original, video_exists, audio_exists, output_file,
                   new_track_index, ffmpeg_result>>
    /\ UNCHANGED <<avars, dvars, pvars, rvars>>

\* except subprocess.CalledProcessError: remove the temp file, raise ValueError
MergeFailed ==
    /\ mpc = "after_ffmpeg"
    /\ ffmpeg_result = "failed"
    /\ merge_temp' = TempAfterFailure(modify_original, merge_temp)
    /\ merge_response' = "ValueError"
    /\ mpc' = "done"
    /\ UNCHANGED <<modify_original, video_exists, audio_exists, video_tracks,
                   output_file, new_track_index, ffmpeg_result>>
    /\ UNCHANGED <<avars, dvars, pvars, rvars>>

NextMerge ==
    MergeCheckPaths \/ MergeProbe \/ MergeRunFfmpeg \/ MergeReplaceOriginal \/ MergeFailed

SpecMerge == InitMerge /\ [][NextMerge]_vars

\* the alignment service as a whole: any one of its three calls
SpecAll == (Init \/ InitAlign) /\ [][Next \/ NextAlign]_vars

\* ======================================================================
\* Properties of detect_drift_points (specification Spec)
\* ======================================================================
Returned == pc = "done" /\ measurements # << >>

Range(s) == {s[i] : i \in 1..Len(s)}

\* |curr - prev| >= threshold, written out on the measurements' fractions
Qualifies(prev, curr, threshold) ==
    Abs(curr[2].n * prev[2].d - prev[2].n * curr[2].d) >= threshold * curr[2].d * prev[2].d

\* C1: whenever detect_drift_points collected a measurement, the returned
\* segments start at 0, each segment ends where the next one starts, and the
\* last one ends at main_duration_ms.
C1_SegmentsContiguous ==
    Returned =>
        /\ segments # << >>
        /\ segments[1].start_time_ms = RatInt(0)
        /\ \A i \in 1..(Len(segments) - 1) :
              segments[i].end_time_ms = segments[i + 1].start_time_ms
        /\ segments[Len(segments)].end_time_ms = RatInt(main_duration_ms)

C1_Witness == Returned /\ Len(segments) = 3 /\ main_duration_ms > 0

C4_ThresholdMonotone ==
    Returned =>
        \A t \in Thresholds :
            /\ t >= drift_threshold_ms =>
                  Range(DetectDrifts(measurements, segment_duration_ms, t)) \subseteq Range(drift_points)
            /\ t <= drift_threshold_ms =>
                  Range(drift_points) \subseteq Range(DetectDrifts(measurements, segment_duration_ms, t))

C4_Witness ==
    /\ Returned
    /\ Len(drift_points) = 1
    /\ \E t \in Thresholds :
          /\ t < drift_threshold_ms
          /\ Len(DetectDrifts(measurements, segment_duration_ms, t)) = 2
    /\ \E t \in Thresholds :
          /\ t > drift_threshold_ms
          /\ DetectDrifts(measurements, segment_duration_ms, t) = << >>

\* C10 (as claimed): a window whose audio load raises is recorded as the
\* measurement (pos, 0, 0) and the scan goes on: the call is never aborted.
C10_BadWindowAbsorbed ==
    window_load = "decode_error" =>
        /\ pc \in {"scan", "done"}
        /\ measurements # << >>
        /\ measurements[Len(measurements)][2] = RatInt(0)
        /\ measurements[Len(measurements)][3] = RatInt(0)

\* ======================================================================
\* Properties of detect_alignment / detect_alignment_segment (SpecAlign)
\* ======================================================================
FramePeriodMs == Rat(hop_length * MsPerSecond, sample_rate)

Aligned == apc = "done"
\* the call reached the cross-correlation (no short-buffer return)
Correlated == apc = "done" /\ correlation # NoCorrelation

OnsetFrames(onset) == {i \in 1..Len(onset) : onset[i] > 0}

\* C5 (as claimed): when either envelope is all-zero the alignment returns
\* exactly offset_ms = 0 and confidence = 0, whatever the envelope lengths.
C5_DegenerateIsZero ==
    (Aligned /\ (SeqMax(onset_main) = 0 \/ SeqMax(onset_secondary) = 0)) =>
        align_result = AlignResponse(RatInt(0), RatInt(0))

\* the delay, in ms, of d whole frames (d * hop_length samples)
DelayMs(d) == Rat(d * hop_length * MsPerSecond, sample_rate)

\* the secondary envelope is the main envelope preceded by d zero frames
DelayedBy(d) == onset_secondary = Zeros(d) \o onset_main

\* C6 (as claimed): aligning p against p delayed by k samples yields a
\* non-negative offset_ms equal to the delay within one frame period.
C6_PureDelayPositive ==
    \A d \in 0..MaxEnvLen :
        (Correlated /\ aop = "detect_alignment" /\ SeqMax(onset_main) > 0 /\ DelayedBy(d)) =>
            /\ RatLE(RatInt(0), align_result.offset_ms)
            /\ RatLE(RatAbs(RatSub(align_result.offset_ms, DelayMs(d))), FramePeriodMs)

\* C6 (amended): aligning p against p delayed by d frames (k = d * hop_length
\* samples, the secondary envelope being the main one preceded by d zero
\* frames) yields a non-positive offset_ms equal to minus the delay within
\* one frame period: a negative offset means the secondary begins later.
C6_PureDelayNegative ==
    \A d \in 0..MaxEnvLen :
        (Correlated /\ aop = "detect_alignment" /\ SeqMax(onset_main) > 0 /\ DelayedBy(d)) =>
            /\ RatLE(align_result.offset_ms, RatInt(0))
            /\ RatLE(RatAbs(RatAdd(align_result.offset_ms, DelayMs(d))), FramePeriodMs)

C6_Witness ==
    /\ Correlated
    /\ aop = "detect_alignment"
    /\ Cardinality(OnsetFrames(onset_main)) = 2
    /\ DelayedBy(3)
    /\ align_result.offset_ms = RatNeg(DelayMs(3))

\* the correlation peak is attained at one lag only
UniquePeak(c) == Cardinality({j \in 1..Len(c) : c[j] = SeqMax(c)}) = 1

\* C7 (as claimed): align(a, b).offset_ms = -align(b, a).offset_ms within one
\* frame period for every pair, ties of the correlation peak included. Stated
\* for inputs whose envelopes each have a positive frame, so that the
\* all-zero case of C5 plays no part in it.
C7_Antisymmetric ==
    (Correlated /\ aop = "detect_alignment"
        /\ SeqMax(onset_main) > 0 /\ SeqMax(onset_secondary) > 0) =>
        RatLE(RatAbs(RatAdd(align_result.offset_ms,
                            AlignEnvelopes(onset_secondary, onset_main).offset_ms)),
              FramePeriodMs)

\* C7 (amended): align(a, b).offset_ms = -align(b, a).offset_ms within one
\* frame period for every pair whose cross-correlation has a single maximum.
C7_AntisymmetricUniquePeak ==
    (Correlated /\ aop = "detect_alignment" /\ UniquePeak(correlation.num)) =>
        RatLE(RatAbs(RatAdd(align_result.offset_ms,
                            AlignEnvelopes(onset_secondary, onset_main).offset_ms)),
              FramePeriodMs)

C7_Witness ==
    /\ Correlated
    /\ aop = "detect_alignment"
    /\ UniquePeak(correlation.num)
    /\ Len(onset_main) # Len(onset_secondary)
    /\ Cardinality(OnsetFrames(onset_main)) = 2
    /\ Cardinality(OnsetFrames(onset_secondary)) = 2
    /\ RatLT(RatInt(0), align_result.offset_ms)

\* C8: aligning an input whose envelope has a positive frame against itself
\* selects lag 0: offset_ms lies within half a frame period of 0.
C8_SelfAlignment ==
    (Correlated /\ aop = "detect_alignment" /\ onset_secondary = onset_main
        /\ SeqMax(onset_main) > 0) =>
        RatLE(RatAbs(align_result.offset_ms), RatDivInt(FramePeriodMs, 2))

C8_Witness ==
    /\ Correlated
    /\ aop = "detect_alignment"
    /\ onset_secondary = onset_main
    /\ Cardinality(OnsetFrames(onset_main)) = 2
    /\ Len(onset_main) = MaxEnvLen

\* C9: the confidence is min(1, max(c) / mean(|c|) / 10) when mean(|c|) > 0
\* and 0 otherwise, c being the full cross-correlation; it always lies in
\* [0, 1], for detect_alignment and detect_alignment_segment alike.
C9_ConfidenceFormula ==
    /\ Aligned =>
          /\ RatLE(RatInt(0), align_result.confidence)
          /\ RatLE(align_result.confidence, RatInt(1))
    /\ Correlated =>
          LET c == correlation.num
              peak == SeqMax(c)
              total == SeqSum([j \in 1..Len(c) |-> Abs(c[j])])
              conf == align_result.confidence
          IN  /\ Len(c) = Len(onset_main) + Len(onset_secondary) - 1
              /\ total = 0 => conf = RatInt(0)
              /\ (total > 0 /\ peak * Len(c) >= ConfidenceDivisor * total) => conf = RatInt(1)
              /\ (total > 0 /\ peak * Len(c) < ConfidenceDivisor * total) =>
                    conf.n * ConfidenceDivisor * total = peak * Len(c) * conf.d

C9_Witness ==
    /\ Correlated
    /\ aop = "detect_alignment_segment"
    /\ SeqMax(correlation.num) * Len(correlation.num)
          > ConfidenceDivisor * SeqSum(correlation.num)
    /\ SeqSum(correlation.num) > 0
    /\ align_result.confidence = RatInt(1)

\* ------------------------------------------------------------------
\* C11: detect_alignment, detect_alignment_segment and detect_drift_points
\* each end in the missing-input error, answered 404 by the route, exactly
\* when the main or the secondary path does not exist, and then nothing has
\* been loaded and no measurement, drift point, segment or result exists.
C11_MissingInputFatal ==
    /\ pc \notin {"idle", "start"} =>
          (pc = "file_not_found" <=> (~main_exists \/ ~secondary_exists))
    /\ pc = "file_not_found" =>
          /\ RouteStatus(pc) = 404
          /\ window_load = "none"
          /\ measurements = << >>
          /\ drift_points = << >>
          /\ segments = << >>
    /\ apc \notin {"idle", "start"} =>
          (apc = "file_not_found" <=> (~main_exists \/ ~secondary_exists))
    /\ apc = "file_not_found" =>
          /\ RouteStatus(apc) = 404
          /\ y_main_len = 0 /\ y_secondary_len = 0
          /\ onset_main = << >> /\ onset_secondary = << >>
          /\ correlation = NoCorrelation
          /\ align_result = NoResult

C11_Witness ==
    /\ aop = "detect_alignment_segment"
    /\ apc = "file_not_found"
    /\ main_exists
    /\ ~secondary_exists

\* C12: a main duration below the window gives no measurement and a result
\* with empty drift_points and empty segments; a returned result for a main
\* duration of at least the window has a non-empty segments list.
C12_ShortInputEmpty ==
    /\ main_duration_ms < segment_duration_ms =>
          /\ measurements = << >>
          /\ drift_points = << >>
          /\ segments = << >>
    /\ (pc = "done" /\ main_duration_ms >= segment_duration_ms) =>
          /\ measurements # << >>
          /\ segments # << >>

C12_Witness ==
    /\ pc = "done"
    /\ main_duration_ms = segment_duration_ms
    /\ Len(segments) = 1

\* the lags at which the cross-correlation attains its maximum; index j of
\* the array (counted from 1) is lag j - len(onset_secondary)
PeakLags ==
    {j - Len(onset_secondary) :
        j \in {i \in 1..Len(correlation.num) : correlation.num[i] = SeqMax(correlation.num)}}

\* C19 (as claimed): among the lags tied for the maximum the reported one has
\* the smallest magnitude and, among those of equal magnitude, is the
\* smallest. Stated for envelopes that each have a positive frame.
C19_TieBreakSmallestMagnitude ==
    (Correlated /\ SeqMax(onset_main) > 0 /\ SeqMax(onset_secondary) > 0) =>
        \E k \in PeakLags :
            /\ align_result.offset_ms = DelayMs(k)
            /\ \A k2 \in PeakLags :
                  Abs(k) < Abs(k2) \/ (Abs(k) = Abs(k2) /\ k <= k2)

\* C19 (amended): the reported lag is argmax(c) - len(onset_secondary) + 1
\* with argmax the FIRST index of the maximum, so among tied lags the lowest
\* (most negative) one is reported, whatever its magnitude.
C19_TieBreakLowestLag ==
    Correlated =>
        \E k \in PeakLags :
            /\ align_result.offset_ms = DelayMs(k)
            /\ \A k2 \in PeakLags : k <= k2

C19_Witness ==
    /\ Correlated
    /\ SeqMax(onset_main) > 0
    /\ PeakLags = {-2, 0}
    /\ align_result.offset_ms = DelayMs(-2)

\* C20: detect_alignment_segment returns exactly offset 0 and confidence 0,
\* with no correlation computed, whenever a loaded slice has fewer than
\* 2 * hop_length samples; in a drift scan such a window is appended to the
\* measurements like any other, with offset 0 and confidence 0.
C20_ShortBufferShortCircuit ==
    /\ (aop = "detect_alignment_segment" /\ apc = "done"
            /\ (y_main_len < 2 * hop_length \/ y_secondary_len < 2 * hop_length)) =>
          /\ align_result = AlignResponse(RatInt(0), RatInt(0))
          /\ correlation = NoCorrelation
    /\ window_load = "short" =>
          /\ measurements # << >>
          /\ measurements[Len(measurements)] =
                <<position_ms - step_ms, RatInt(0), RatInt(0)>>

C20_Witness ==
    /\ window_load = "short"
    /\ pc = "done"
    /\ Len(measurements) = 2
    /\ measurements[1][2] # RatInt(0)
    /\ drift_points # << >>

\* ------------------------------------------------------------------
\* Compensation planner
NumSegments == Len(plan_segments)

PlanReturned == plan_pc = "done"

WithinOneSample(a_ms, b_ms) == Abs(a_ms - b_ms) * sample_rate <= MsPerSecond

\* C13 (as claimed): every feasible plan renders to main_duration_ms within
\* one sample.
C13_OutputIsMainDuration ==
    PlanReturned => WithinOneSample(PlanDuration(ops), plan_main_duration_ms)

\* C13 (amended): a feasible plan over two or more segments renders to
\* secondary_duration_ms + total_silence_ms - total_trimmed_ms, which is
\* secondary_duration_ms plus the first segment's offset minus the last
\* one's; that is main_duration_ms only for a secondary of exactly that
\* length. The trivial plan renders to main_duration_ms.
C13_OutputDuration ==
    PlanReturned =>
        IF NumSegments < 2
        THEN PlanDuration(ops) = plan_main_duration_ms
        ELSE /\ PlanDuration(ops) =
                    secondary_duration_ms + total_silence_ms - total_trimmed_ms
             /\ PlanDuration(ops) =
                    secondary_duration_ms + plan_segments[1].offset_ms
                        - plan_segments[NumSegments].offset_ms

C13_Witness ==
    /\ PlanReturned
    /\ NumSegments = 3
    /\ total_silence_ms > 0
    /\ total_trimmed_ms > 0
    /\ ~WithinOneSample(PlanDuration(ops), plan_main_duration_ms)

IsScenarioS5 ==
    /\ plan_segments = ScenarioS5.segments
    /\ plan_main_duration_ms = ScenarioS5.main_duration_ms
    /\ secondary_duration_ms = ScenarioS5.secondary_duration_ms

ScenarioS5Plan == <<CopyRange(0, 60000), Silence(3000), CopyRange(60000, 63000)>>

\* C14 (as claimed): scenario S5 plans to CopyRange(0, 60000), Silence(3000),
\* CopyRange(60000, 63000), renders to 123 s, with 3000 ms of silence and
\* nothing trimmed.
C14_ScenarioS5Renders123s ==
    (IsScenarioS5 /\ plan_pc \in {"done", "infeasible"}) =>
        /\ PlanReturned
        /\ ops = ScenarioS5Plan
        /\ PlanDuration(ops) = 123000
        /\ total_silence_ms = 3000
        /\ total_trimmed_ms = 0

\* C14 (amended): the same plan and totals; the rendered output is the sum
\* of the three durations, 66 s.
C14_ScenarioS5Renders66s ==
    (IsScenarioS5 /\ plan_pc \in {"done", "infeasible"}) =>
        /\ PlanReturned
        /\ ops = ScenarioS5Plan
        /\ PlanDuration(ops) = 66000
        /\ total_silence_ms = 3000
        /\ total_trimmed_ms = 0

C14_Witness == IsScenarioS5 /\ PlanReturned /\ Len(ops) = 3

Max0(x) == IF x > 0 THEN x ELSE 0

\* the adjustment at the boundary between sorted segments k and k + 1
BoundaryAdjust(k) == plan_segments[k].offset_ms - plan_segments[k + 1].offset_ms

\* the duration of the k-th CopyRange of the walk over the sorted segments
\* (the last one being the tail), written out from the segment list alone
CopyLength(k) ==
    IF k = NumSegments
    THEN secondary_duration_ms
            - (plan_segments[k].start_time_ms
                 - (plan_segments[1].offset_ms - plan_segments[k - 1].offset_ms)
                 + Max0(-BoundaryAdjust(k - 1)))
    ELSE IF k = 1
    THEN plan_segments[2].start_time_ms
    ELSE plan_segments[k + 1].start_time_ms - plan_segments[k].start_time_ms
            - Max0(BoundaryAdjust(k - 1))

\* C15: the planner ends in PlanInfeasible, with no plan and naming the first
\* offending boundary, exactly when some CopyRange of the walk would have zero
\* or negative duration; every returned plan has only CopyRange ops with
\* src_end > src_start and Silence ops with duration > 0.
C15_InfeasibleIffEmptyRange ==
    /\ (plan_pc \in {"done", "infeasible"} /\ NumSegments >= 2) =>
          /\ plan_pc = "infeasible" <=> \E k \in 1..NumSegments : CopyLength(k) <= 0
          /\ plan_pc = "infeasible" =>
                /\ ops = << >>
                /\ CopyLength(boundary - 1) <= 0
                /\ \A j \in 1..(boundary - 2) : CopyLength(j) > 0
    /\ PlanReturned =>
          /\ ops # << >>
          /\ \A i \in 1..Len(ops) :
                IF ops[i].kind = "CopyRange"
                THEN ops[i].src_end_ms > ops[i].src_start_ms
                ELSE ops[i].kind = "Silence" /\ ops[i].duration_ms > 0

\* a trim at the last boundary that leaves no secondary content for the tail
C15_Witness ==
    /\ plan_pc = "infeasible"
    /\ NumSegments = 3
    /\ boundary = NumSegments + 1
    /\ BoundaryAdjust(NumSegments - 1) < 0
    /\ CopyLength(NumSegments) + Max0(-BoundaryAdjust(NumSegments - 1)) > 0

\* the output produced up to and including the c-th CopyRange of the plan
OutputUpToCopy(c) ==
    LET i == CHOOSE i \in 1..Len(ops) :
                 /\ ops[i].kind = "CopyRange"
                 /\ Cardinality({j \in 1..i : ops[j].kind = "CopyRange"}) = c
    IN  PlanDuration(SubSeq(ops, 1, i))

\* C16: in every feasible plan, and at every boundary while planning, the
\* output up to the end of the CopyRange emitted before boundary
\* b_k = segment[k].start_time_ms, earlier silences included, is b_k long.
C16_BoundariesLineUp ==
    /\ plan_pc = "adjust" => PlanDuration(ops) = plan_segments[boundary].start_time_ms
    /\ (PlanReturned /\ NumSegments >= 2) =>
          \A k \in 2..NumSegments :
              OutputUpToCopy(k - 1) = plan_segments[k].start_time_ms

C16_Witness ==
    /\ PlanReturned
    /\ NumSegments = 3
    /\ BoundaryAdjust(1) > 0
    /\ BoundaryAdjust(2) < 0
    /\ OutputUpToCopy(2) = plan_segments[3].start_time_ms

\* C17 (as claimed): fewer than 2 segments give [CopyRange(0, main_duration_ms)]
\* with both totals 0, whose rendering is the input secondary audio.
C17_TrivialPlanIsNoOp ==
    (PlanReturned /\ NumSegments < 2) =>
        /\ ops = <<CopyRange(0, plan_main_duration_ms)>>
        /\ total_silence_ms = 0
        /\ total_trimmed_ms = 0
        /\ PlanDuration(ops) = secondary_duration_ms

\* C17 (amended): fewer than 2 segments give [CopyRange(0, main_duration_ms)]
\* with both totals 0; it renders main_duration_ms of audio, which is the
\* whole secondary only when the two durations are equal.
C17_TrivialPlan ==
    (PlanReturned /\ NumSegments < 2) =>
        /\ ops = <<CopyRange(0, plan_main_duration_ms)>>
        /\ total_silence_ms = 0
        /\ total_trimmed_ms = 0
        /\ PlanDuration(ops) = plan_main_duration_ms
        /\ PlanDuration(ops) = secondary_duration_ms <=>
              plan_main_duration_ms = secondary_duration_ms

C17_Witness ==
    /\ PlanReturned
    /\ NumSegments = 1
    /\ plan_main_duration_ms < secondary_duration_ms

\* ------------------------------------------------------------------
\* C18 (as claimed): of two requests served by the process neither reads nor
\* overwrites a file written by the other: the file a response names was
\* written by that request (or was there before both), and no request's
\* file is replaced by the other's.
C18_RequestIsolation ==
    \A r \in Requests :
        (req_state[r] = "done" /\ response_path[r] # "none") =>
            temp_files[response_path[r]].writer \in {0, r}

\* ------------------------------------------------------------------
\* Segment synthesis and drift points, measured against the measurements
\* the windows whose start lies in [lo, hi), by index
StartsIn(lo, hi) ==
    {i \in 1..Len(measurements) :
        RatLE(lo, RatInt(measurements[i][1])) /\ RatLT(RatInt(measurements[i][1]), hi)}

\* the windows whose start is at or after lo, by index
StartsFrom(lo) ==
    {i \in 1..Len(measurements) : RatLE(lo, RatInt(measurements[i][1]))}

\* v is the median of the offsets of the measurements I: the middle one in
\* rank, or half the sum of the two middle ones
IsMedianOver(v, I) ==
    LET n == Cardinality(I)
        less(x) == Cardinality({i \in I : RatLT(measurements[i][2], x)})
        greater(x) == Cardinality({i \in I : RatLT(x, measurements[i][2])})
    IN  IF n % 2 = 1
        THEN \E i \in I :
                /\ v = measurements[i][2]
                /\ 2 * less(v) < n
                /\ 2 * greater(v) < n
        ELSE \E i \in I, j \in I :
                LET a == measurements[i][2]
                    b == measurements[j][2]
                IN  /\ RatLE(a, b)
                    /\ 2 * less(a) < n /\ 2 * greater(a) <= n
                    /\ 2 * less(b) <= n /\ 2 * greater(b) < n
                    /\ RatAdd(v, v) = RatAdd(a, b)

\* v is the mean of the confidences of the measurements I
IsMeanOver(v, I) ==
    LET n == Cardinality(I)
        nth(k) == CHOOSE i \in I : Cardinality({j \in I : j <= i}) = k
    IN  v = RatDivInt(RatSum([k \in 1..n |-> measurements[nth(k)][3]]), n)

\* C21: with drift points, segment k is [prev_start, d_k.timestamp_ms) with
\* the median offset and mean confidence of exactly the measurements starting
\* in that range, or d_k.offset_before / d_k.confidence when there are none;
\* the final segment [d_last.timestamp_ms, D) uses the measurements starting
\* at or after d_last.timestamp_ms, or d_last.offset_after / d_last.confidence.
C21_SegmentsFromBuckets ==
    (Returned /\ drift_points # << >>) =>
        /\ Len(segments) = Len(drift_points) + 1
        /\ \A k \in 1..Len(drift_points) :
              LET lo == IF k = 1 THEN RatInt(0) ELSE drift_points[k - 1].timestamp_ms
                  hi == drift_points[k].timestamp_ms
                  I == StartsIn(lo, hi)
              IN  /\ segments[k].start_time_ms = lo
                  /\ segments[k].end_time_ms = hi
                  /\ IF I = {}
                     THEN /\ segments[k].offset_ms = drift_points[k].offset_before_ms
                          /\ segments[k].confidence = drift_points[k].confidence
                     ELSE /\ IsMedianOver(segments[k].offset_ms, I)
                          /\ IsMeanOver(segments[k].confidence, I)
        /\ LET last == drift_points[Len(drift_points)]
               final == segments[Len(segments)]
               I == StartsFrom(last.timestamp_ms)
           IN  /\ final.start_time_ms = last.timestamp_ms
               /\ final.end_time_ms = RatInt(main_duration_ms)
               /\ IF I = {}
                  THEN /\ final.offset_ms = last.offset_after_ms
                       /\ final.confidence = last.confidence
                  ELSE /\ IsMedianOver(final.offset_ms, I)
                       /\ IsMeanOver(final.confidence, I)

\* a middle segment without a window start, and a first one with two
C21_Witness ==
    /\ Returned
    /\ Len(drift_points) = 2
    /\ Cardinality(StartsIn(RatInt(0), drift_points[1].timestamp_ms)) = 3
    /\ StartsIn(drift_points[1].timestamp_ms, drift_points[2].timestamp_ms) = {}
    /\ segments[2].offset_ms = drift_points[2].offset_before_ms
    /\ segments[2].offset_ms # segments[1].offset_ms

AllWindows == 1..Len(measurements)

\* C22: with a measurement and no adjacent pair reaching the threshold the
\* result is the one segment [0, main_duration_ms) whose offset is the median
\* of all offsets and whose confidence is the mean of all confidences.
C22_NoDriftOneSegment ==
    (Returned /\ \A i \in 2..Len(measurements) :
                    ~Qualifies(measurements[i - 1], measurements[i], drift_threshold_ms)) =>
        /\ drift_points = << >>
        /\ Len(segments) = 1
        /\ segments[1].start_time_ms = RatInt(0)
        /\ segments[1].end_time_ms = RatInt(main_duration_ms)
        /\ IsMedianOver(segments[1].offset_ms, AllWindows)
        /\ IsMeanOver(segments[1].confidence, AllWindows)

C22_Witness ==
    /\ Returned
    /\ drift_points = << >>
    /\ Len(measurements) = 3
    /\ measurements[1][2] # measurements[2][2]
    /\ segments[1].offset_ms # measurements[1][2]

\* the index i of the k-th adjacent pair (m[i-1], m[i]) reaching the threshold
QualifyingPair(k) ==
    CHOOSE i \in 2..Len(measurements) :
        /\ Qualifies(measurements[i - 1], measurements[i], drift_threshold_ms)
        /\ Cardinality({j \in 2..i :
               Qualifies(measurements[j - 1], measurements[j], drift_threshold_ms)}) = k

\* C23: the drift point of the pair (m[i-1], m[i]) has timestamp_ms =
\* (m[i-1].start + m[i].start + window_ms) / 2, offset_before_ms and
\* offset_after_ms the two offsets verbatim, and the smaller confidence.
C23_DriftPointFields ==
    Returned =>
        \A k \in 1..Len(drift_points) :
            LET i == QualifyingPair(k)
                d == drift_points[k]
                prev == measurements[i - 1]
                curr == measurements[i]
            IN  /\ 2 * d.timestamp_ms.n =
                      (prev[1] + curr[1] + segment_duration_ms) * d.timestamp_ms.d
                /\ d.offset_before_ms = prev[2]
                /\ d.offset_after_ms = curr[2]
                /\ d.confidence \in {prev[3], curr[3]}
                /\ RatLE(d.confidence, prev[3])
                /\ RatLE(d.confidence, curr[3])

C23_Witness ==
    /\ Returned
    /\ Len(drift_points) = 1
    /\ QualifyingPair(1) = 3
    /\ drift_points[1].timestamp_ms.d = 2
    /\ RatLT(measurements[3][3], measurements[2][3])
    /\ drift_points[1].confidence = measurements[3][3]

\* C24 (as claimed): every drift point's timestamp lies inside the overlap of
\* the two windows it comes from: m[i].start <= timestamp_ms <= m[i-1].start
\* + window_ms.
C24_TimestampInOverlap ==
    Returned =>
        \A k \in 1..Len(drift_points) :
            LET i == QualifyingPair(k)
                t == drift_points[k].timestamp_ms
            IN  /\ measurements[i][1] * t.d <= t.n
                /\ t.n <= (measurements[i - 1][1] + segment_duration_ms) * t.d

\* C24 (amended): the timestamp is midway between m[i].start and
\* m[i-1].start + window_ms: inside the overlap of the two windows when
\* step_ms <= window_ms, and strictly inside the gap between them when
\* step_ms > window_ms.
C24_TimestampMidway ==
    Returned =>
        \A k \in 1..Len(drift_points) :
            LET i == QualifyingPair(k)
                t == drift_points[k].timestamp_ms
                next_start == measurements[i][1]
                prev_end == measurements[i - 1][1] + segment_duration_ms
            IN  /\ 2 * t.n = (next_start + prev_end) * t.d
                /\ step_ms <= segment_duration_ms =>
                      (next_start * t.d <= t.n /\ t.n <= prev_end * t.d)
                /\ step_ms > segment_duration_ms =>
                      (prev_end * t.d < t.n /\ t.n < next_start * t.d)

C24_Witness ==
    /\ Returned
    /\ step_ms > segment_duration_ms
    /\ Len(drift_points) = 1
    /\ drift_points[1].timestamp_ms.n < measurements[2][1] * drift_points[1].timestamp_ms.d

\* C25: the scan measures one window per position i * step_ms with
\* i * step_ms + window_ms <= main_duration_ms, in that order; the returned
\* measurements are strictly ascending in window start, consecutive starts
\* differing by step_ms, and no fitting position is left out.
C25_OneWindowPerPosition ==
    /\ \A i \in 1..Len(measurements) :
          /\ measurements[i][1] = (i - 1) * step_ms
          /\ measurements[i][1] + segment_duration_ms <= main_duration_ms
    /\ pc = "done" =>
          /\ \A i \in 0..Len(measurements) :
                (i * step_ms + segment_duration_ms <= main_duration_ms) =>
                    i < Len(measurements)
          /\ \A i \in 2..Len(measurements) :
                /\ measurements[i - 1][1] < measurements[i][1]
                /\ measurements[i][1] - measurements[i - 1][1] = step_ms

C25_Witness ==
    /\ pc = "done"
    /\ Len(measurements) = 3
    /\ measurements[3][1] + segment_duration_ms = main_duration_ms

\* floor(a / b) for b # 0
FloorDiv(a, b) == IF b > 0 THEN a \div b ELSE (-a) \div (-b)

\* C26 (as claimed): the scan ends after at most
\* floor((main_duration_ms - segment_duration_ms) / step_ms) + 1 windows for
\* every step_ms, zero and negative included; a scan that ends measures no
\* position twice.
C26_ScanTerminates ==
    /\ step_ms # 0 =>
          Len(measurements)
              <= Max0(FloorDiv(main_duration_ms - segment_duration_ms, step_ms) + 1)
    /\ \A i \in 1..Len(measurements), j \in 1..Len(measurements) :
          i # j => measurements[i][1] # measurements[j][1]

\* C27: for a returned scan with a measurement (step_ms > 0, window_ms > 0)
\* the drift points are strictly increasing in timestamp, each with
\* 0 < timestamp_ms < main_duration_ms, there is one segment more than drift
\* points, and every segment has start_time_ms < end_time_ms.
C27_OrderedAndNonEmpty ==
    Returned =>
        /\ step_ms > 0 /\ segment_duration_ms > 0
        /\ \A k \in 1..Len(drift_points) :
              /\ RatLT(RatInt(0), drift_points[k].timestamp_ms)
              /\ RatLT(drift_points[k].timestamp_ms, RatInt(main_duration_ms))
        /\ \A k \in 2..Len(drift_points) :
              RatLT(drift_points[k - 1].timestamp_ms, drift_points[k].timestamp_ms)
        /\ Len(segments) = Len(drift_points) + 1
        /\ \A k \in 1..Len(segments) :
              RatLT(segments[k].start_time_ms, segments[k].end_time_ms)

C27_Witness ==
    /\ Returned
    /\ Len(drift_points) = 2
    /\ Len(segments) = 3
    /\ segments[3].end_time_ms = RatInt(main_duration_ms)
    /\ RatLT(segments[3].start_time_ms, RatInt(main_duration_ms))

\* the offsets are c1 for the first j windows and c2 for the rest, the jump
\* reaching the threshold
StepFunctionAt(j) ==
    /\ \A i \in 1..j : measurements[i][2] = measurements[1][2]
    /\ \A i \in (j + 1)..Len(measurements) :
          measurements[i][2] = measurements[Len(measurements)][2]
    /\ Qualifies(measurements[j], measurements[j + 1], drift_threshold_ms)

\* C28 (as claimed): for offsets that are a step function from c1 to c2 with
\* |c1 - c2| >= threshold the result has exactly one drift point and two
\* segments, the first with offset c1 and the second with offset c2. Stated
\* for a positive threshold.
C28_SingleCleanJump ==
    (Returned /\ drift_threshold_ms > 0
        /\ \E j \in 1..(Len(measurements) - 1) : StepFunctionAt(j)) =>
        /\ Len(drift_points) = 1
        /\ Len(segments) = 2
        /\ segments[1].offset_ms = measurements[1][2]
        /\ segments[2].offset_ms = measurements[Len(measurements)][2]

\* ------------------------------------------------------------------
\* C29: with modify_original the original video is replaced only after the
\* ffmpeg run into the temp file has succeeded; when the run fails the
\* original keeps its tracks, the temp file is gone and the call ends with
\* ValueError, not with a success response.
C29_ReplaceOnlyAfterSuccess ==
    modify_original =>
        /\ (mpc \in {"ffmpeg", "after_ffmpeg"}) => video_tracks = new_track_index
        /\ (mpc = "done" /\ ffmpeg_result # "not_run" /\ video_tracks # new_track_index) =>
              /\ ffmpeg_result = "ok"
              /\ video_tracks = new_track_index + 1
              /\ merge_response = "success"
        /\ (mpc = "done" /\ ffmpeg_result = "failed") =>
              /\ video_tracks = new_track_index
              /\ merge_temp = "absent"
              /\ merge_response = "ValueError"
        /\ merge_response = "success" => ffmpeg_result = "ok"

C29_Witness ==
    /\ modify_original
    /\ mpc = "done"
    /\ ffmpeg_result = "failed"
    /\ merge_response = "ValueError"
    /\ video_tracks = 2
    /\ merge_temp = "absent"

====
